---------------------------- MODULE Spec2Model ----------------------------
(***************************************************************************)
(* Protractor.cpp: the host-side driver of the Protractor angle/proximity  *)
(* sensor.  The driver requests 1 + 4*obs bytes over a byte stream or the  *)
(* two-wire bus, gathers them into _buffer under an inter-byte deadline,   *)
(* and answers count/angle/visibility queries from _buffer.  It also sends *)
(* configuration frames.                                                   *)
(*                                                                         *)
(* One behaviour follows a driver from construction through begin() and   *)
(* one call of read() to any number of accessor or configuration calls.    *)
(* The driver keeps nothing between two calls but _buffer and what the     *)
(* transport still holds, and Init draws both, so a scan that follows      *)
(* other calls is a first scan from another initial state.                 *)
(***************************************************************************)
EXTENDS Integers, Sequences, FiniteSets, TLC

(***************************************************************************)
(* Program constants.  Protractor.h is not part of the source tree:        *)
(* MAXOBJECTS and the size of _buffer are taken from the specification;    *)
(* the command tags (REQUESTDATA, SCANTIME, ...) are kept symbolic.        *)
(***************************************************************************)
MAXOBJECTS == 8

Capacity == 1 + 4 * MAXOBJECTS

MINDUR == 15

maxWait == 20000

NEWLINE == 10

\* an unsigned long is kept as its two 16-bit halves <<high, low>>
HalfRange == 65536

(***************************************************************************)
(* Bounds of the model.                                                    *)
(***************************************************************************)
\* most bytes the transport's receive queue holds ahead of the driver
RxCap == 1

\* most bytes of one answer that arrive after the clock has moved
MaxLate == 2

\* most microseconds the model lets pass without a byte being stored
MaxQuiet == 20000

\* most bytes the peripheral sends in answer to one request
MaxAnswer == 34

(***************************************************************************)
(* Inputs.                                                                 *)
(***************************************************************************)
\* arguments of read(obs)
ReadArgs == {-1, 0, 8, 9}

\* index arguments of the accessors
IdxArgs == {-1, 0, 8}

\* header bytes the peripheral answers with: one object (0x10), two objects
\* and a path (0x21), fifteen objects and three paths (0xF3)
RespHeaders == {16, 33, 243}

\* what an uninitialised _buffer may hold: <<header byte, payload pattern>>
InitContents == {<<82, 255>>, <<243, 77>>}

\* payload patterns (the byte at offset k of a pattern p is Payload(p, k))
RespFills == {128}

\* bus addresses given to begin(wire, address)
Addresses == {69, 16}

\* values of micros() when read() is entered, as halves: the counter wraps
\* around with the first clock step and runs on from 0 with the later ones
StartClocks == {<<HalfRange - 1, HalfRange - 10000>>}

\* microseconds the clock advances in one step
TickSteps == {10000}

\* bytes left in the serial receive queue by earlier traffic
StaleQueues == {<<>>, <<33>>}

\* bytes that a load from beyond _buffer may yield
StrayBytes == {0, 90, 255}

\* arguments of the configuration calls that follow a scan
ScanTimeArgs == {-1, 0, 5, 100}

AddressArgs == {1, 16, 200}

BaudArgs == {1199, 9600}

\* arguments of the first configuration call of a driver: every int16_t
\* for scanTime(), the int16_t around the valid addresses and the uint8_t
\* range, and the int32_t around the valid rates, around the carries into
\* the second and third byte, and at the ends of the type
Int16 == (-32768)..32767

AddressRange == (-300)..300

BaudRange ==
    (1190..1300) \cup (65500..65600) \cup (249900..250100)
        \cup {-2147483647, -1, 0, 9600, 115200, 2147483647}

(***************************************************************************)
(* Conversions.                                                            *)
(***************************************************************************)
\* (uint8_t)x, (byte)x
Byte(x) == x % 256

\* x >> n for x >= 0
ShiftRight(x, n) == x \div (2 ^ n)

\* unsigned long arithmetic (modulo 2^32) on the halves
ULong(n) == <<(n \div HalfRange) % HalfRange, n % HalfRange>>

ULongAdd(a, b) ==
    LET low == a[2] + b[2]
    IN  <<(a[1] + b[1] + low \div HalfRange) % HalfRange, low % HalfRange>>

ULongSub(a, b) ==
    LET low == a[2] - b[2]
    IN  <<(a[1] - b[1] + low \div HalfRange) % HalfRange, low % HalfRange>>

\* a < n for an unsigned long a and a constant 0 <= n < 2^31
ULongLess(a, n) == a[1] < HalfRange \div 2 /\ a[1] * HalfRange + a[2] < n

\* map() rounding to the nearest integer instead of truncating
mapRounded(x, in_min, in_max, out_min, out_max) ==
    ((x - in_min) * (out_max - out_min) + (in_max - in_min) \div 2)
        \div (in_max - in_min) + out_min

\* Arduino's map(): (x - in_min) * (out_max - out_min) / (in_max - in_min)
\* + out_min in long arithmetic; the division truncates (all operands here
\* are non-negative)
map(x, in_min, in_max, out_min, out_max) ==
    ((x - in_min) * (out_max - out_min)) \div (in_max - in_min) + out_min

(***************************************************************************)
(* The answer of the peripheral: a header byte followed by a payload       *)
(* pattern.                                                                *)
(***************************************************************************)
Payload(p, k) == (p + 7 * k) % 256

MakeBytes(h, p, n) == [k \in 1..n |-> IF k = 1 THEN h ELSE Payload(p, k - 1)]

\* the answer to a request for n bytes
Answer(h, p, n) == MakeBytes(h, p, IF n < MaxAnswer THEN n ELSE MaxAnswer)

MakeBuffer(h, p) == [k \in 0..(Capacity - 1) |-> IF k = 0 THEN h ELSE Payload(p, k)]

Prefix(s, n) == SubSeq(s, 1, IF n < Len(s) THEN n ELSE Len(s))

\* how many bytes the peripheral supplies to requestFrom(address, n) at most
WireLens == {0, 1, 255}

(***************************************************************************)
(* State.                                                                  *)
(***************************************************************************)
VARIABLES
    pc,         \* "new": constructed; "idle": begun, no call in progress;
                \* "loop": read() is at its while condition
    comm,       \* _comm: "I2C", "SERIAL", or "NONE" before begin()
    address,    \* _address
    numdata,    \* _numdata
    buffer,     \* _buffer[0 .. Capacity - 1]
    numBytes,   \* read(): numBytes
    i,          \* read(): i
    startTime,  \* read(): startTime
    duration,   \* read(): duration
    now,        \* the value micros() returns
    rx,         \* bytes the transport holds for _read()
    pending,    \* bytes of the serial answer still on their way
    tx,         \* what the call in progress (or the last call) did to the transport
    lastOp,     \* the call in progress (or the last call): [name, arg]
    ret,        \* what the last call returned
    idx,        \* the index of _buffer the driver touched last (-1: none)
    stored,     \* bytes the last read() stored
    quiet,      \* microseconds since read() last stored a byte (or requested)
    late,       \* bytes of the answer that arrived after the clock had moved
    before,     \* _buffer as read() found it
    scanned     \* _buffer as read() left it

vars == <<pc, comm, address, numdata, buffer, numBytes, i, startTime, duration,
          now, rx, pending, tx, lastOp, ret, idx, stored, quiet, late, before,
          scanned>>

driver == <<comm, address, numdata, buffer>>

locals == <<numBytes, i, startTime, duration>>

scan == <<stored, quiet, late, before, scanned>>

Event(ev, addr, bytes) == [ev |-> ev, addr |-> addr, bytes |-> bytes]

Op(name, arg) == [name |-> name, arg |-> arg]

(***************************************************************************)
(* Construction and begin().                                               *)
(***************************************************************************)
Init ==
    /\ pc = "new"
    /\ comm = "NONE"
    /\ address = 0
    /\ numdata = 0
    /\ buffer \in {MakeBuffer(c[1], c[2]) : c \in InitContents}
    /\ numBytes = 0 /\ i = 0
    /\ startTime = ULong(0) /\ duration = ULong(0) /\ now = ULong(0)
    /\ rx = <<>> /\ pending = <<>> /\ tx = <<>>
    /\ lastOp = Op("Protractor", 0)
    /\ ret = 0
    /\ idx = -1
    /\ stored = 0 /\ quiet = 0 /\ late = 0
    /\ before = buffer /\ scanned = buffer

beginSerial ==
    /\ pc = "new"
    /\ comm' = "SERIAL"
    /\ rx' \in StaleQueues
    /\ pc' = "idle"
    /\ lastOp' = Op("begin", 0)
    /\ tx' = <<>>
    /\ UNCHANGED <<address, numdata, buffer, locals, now, pending, ret, idx, scan>>

beginWire(a) ==
    /\ pc = "new"
    /\ address' = a
    /\ comm' = "I2C"
    /\ pc' = "idle"
    /\ lastOp' = Op("begin", a)
    /\ tx' = <<Event("begin", 0, <<>>)>>
    /\ UNCHANGED <<numdata, buffer, locals, now, rx, pending, ret, idx, scan>>

(***************************************************************************)
(* The transport adapter.                                                  *)
(***************************************************************************)
\* _available(): the transport's count, returned as uint8_t
available == IF comm \in {"I2C", "SERIAL"} THEN Byte(Len(rx)) ELSE 0

\* _write(): what writing a frame does to the transport
write(frame) ==
    IF comm = "I2C"
    THEN <<Event("beginTransmission", address, <<>>),
           Event("write", 0, frame),
           Event("endTransmission", 0, <<>>)>>
    ELSE IF comm = "SERIAL"
    THEN <<Event("write", 0, frame)>>
    ELSE <<>>

\* _requestData(): what the request does to the transport
requestData(n) ==
    IF comm = "I2C"
    THEN <<Event("requestFrom", address, <<n>>)>>
    ELSE IF comm = "SERIAL"
    THEN write(<<"REQUESTDATA", n, NEWLINE>>)
    ELSE <<>>

(***************************************************************************)
(* read(obs).                                                              *)
(***************************************************************************)
\* if(obs > MAXOBJECTS) obs = MAXOBJECTS;
ClampObs(obs) == IF obs > MAXOBJECTS THEN MAXOBJECTS ELSE obs

\* the request without the header byte
NumBytesNoHeader(obs) == Byte(obs * 4)

\* uint8_t numBytes = 1 + obs*4;
NumBytes(obs) == Byte(1 + obs * 4)

\* the loop without its deadline
LoopCondNoDeadline(k, n, d) == k < n

\* while(i < numBytes && duration < maxWait)
LoopCond(k, n, d) == k < n /\ ULongLess(d, maxWait)

\* success only when more than the header byte arrived
ReadResultPayload(k) == IF k > 1 THEN 1 ELSE 0

\* if(i == 0) return 0; else return 1;
ReadResult(k) == IF k = 0 THEN 0 ELSE 1

\* read() up to the while loop: the request goes out, the answer h, p of
\* the peripheral is on its way (serial) or in the receive buffer (two-wire)
readCall(obs, h, p, len, clock) ==
    /\ pc = "idle"
    /\ lastOp.name = "begin"
    /\ numdata' = ClampObs(obs)
    /\ numBytes' = NumBytes(ClampObs(obs))
    /\ tx' = requestData(numBytes')
    /\ IF comm = "I2C"
       THEN /\ len \in WireLens
            /\ rx' = Prefix(Answer(h, p, numBytes'), len)
            /\ pending' = <<>>
       ELSE /\ len = 0
            /\ rx' = rx
            /\ pending' = Answer(h, p, numBytes')
    /\ i' = 0
    /\ now' = clock
    /\ startTime' = now'
    /\ duration' = ULong(0)
    /\ pc' = "loop"
    /\ lastOp' = Op("read", obs)
    /\ stored' = 0 /\ quiet' = 0 /\ late' = 0
    /\ before' = buffer
    /\ ret' = 0 /\ idx' = -1
    /\ UNCHANGED <<comm, address, buffer, scanned>>

\* _buffer[k] = b: a store beyond the array leaves the array as it is and
\* lands on what lies behind _buffer in the object
StoreByte(buf, k, b) == IF k \in DOMAIN buf THEN [buf EXCEPT ![k] = b] ELSE buf

\* what a store of b beyond the array may do to the member _address: the
\* layout of the object is in Protractor.h, so the byte may land on it or
\* elsewhere
Clobber(buf, k, b, member) == IF k \in DOMAIN buf THEN {member} ELSE {member, b}

\* one iteration of the while loop
readLoop ==
    /\ pc = "loop"
    /\ LoopCond(i, numBytes, duration)
    /\ IF available # 0
       THEN /\ buffer' = StoreByte(buffer, i, Head(rx))
            /\ address' \in Clobber(buffer, i, Head(rx), address)
            /\ rx' = Tail(rx)
            /\ idx' = i
            /\ i' = i + 1
            /\ startTime' = now
            /\ stored' = stored + 1
            /\ quiet' = 0
       ELSE UNCHANGED <<buffer, address, rx, idx, i, startTime, stored, quiet>>
    /\ duration' = ULongSub(now, startTime')
    /\ UNCHANGED <<pc, comm, numdata, numBytes, now, pending, tx,
                   lastOp, ret, late, before, scanned>>

\* the loop ends and read() returns; its locals end with it, and the model
\* stops following the clock
readReturn ==
    /\ pc = "loop"
    /\ ~LoopCond(i, numBytes, duration)
    /\ ret' = ReadResult(i)
    /\ pc' = "idle"
    /\ numBytes' = 0 /\ i' = 0
    /\ startTime' = ULong(0) /\ duration' = ULong(0) /\ now' = ULong(0)
    /\ scanned' = buffer
    /\ late' = 0
    /\ UNCHANGED <<driver, rx, pending, tx, lastOp, idx, stored, quiet, before>>

(***************************************************************************)
(* The environment of read(): the serial answer arrives byte by byte, and  *)
(* the clock advances.  The loop polls faster than the clock steps: the    *)
(* clock moves only while nothing is available and after the loop has read *)
(* it.                                                                     *)
(***************************************************************************)
Arrive ==
    /\ pc = "loop"
    /\ comm = "SERIAL"
    /\ pending # <<>>
    /\ Len(rx) < RxCap
    /\ quiet = 0 \/ late < MaxLate
    /\ rx' = Append(rx, Head(pending))
    /\ pending' = Tail(pending)
    /\ late' = IF quiet = 0 THEN late ELSE late + 1
    /\ UNCHANGED <<pc, driver, locals, now, tx, lastOp, ret, idx, stored,
                   quiet, before, scanned>>

Tick(d) ==
    /\ pc = "loop"
    /\ rx = <<>>
    /\ duration = ULongSub(now, startTime)
    /\ quiet + d <= MaxQuiet
    /\ now' = ULongAdd(now, ULong(d))
    /\ quiet' = quiet + d
    /\ UNCHANGED <<pc, driver, locals, rx, pending, tx, lastOp, ret, idx,
                   stored, late, before, scanned>>

(***************************************************************************)
(* The accessors.  objectAngle(), objectVisibility(), pathAngle() and      *)
(* pathVisibility() without an argument are the calls with argument 0.     *)
(***************************************************************************)
\* the object count taken from the low nibble
objectCountOfLow(buf) == buf[0] % 16

\* (int16_t)(_buffer[0] >> 4)
objectCountOf(buf) == ShiftRight(buf[0], 4)

\* _buffer[0] &= 0b00001111: the header byte pathCount() leaves in _buffer
MaskHeader(buf) == [buf EXCEPT ![0] = buf[0] % 16]

\* (int16_t)(_buffer[0] &= 0b00001111)
pathCountOf(buf) == MaskHeader(buf)[0]

\* ob >= count || ob < 0
OutOfRange(k, count) == k >= count \/ k < 0

\* what a load of _buffer[k] may yield: beyond the array, any byte
Load(buf, k) == IF k \in DOMAIN buf THEN {buf[k]} ELSE StrayBytes

objectCount ==
    /\ pc = "idle"
    /\ ret' = objectCountOf(buffer)
    /\ idx' = 0
    /\ lastOp' = Op("objectCount", 0)
    /\ tx' = <<>>
    /\ UNCHANGED <<pc, driver, locals, now, rx, pending, scan>>

pathCount ==
    /\ pc = "idle"
    /\ buffer' = MaskHeader(buffer)
    /\ ret' = pathCountOf(buffer)
    /\ idx' = 0
    /\ lastOp' = Op("pathCount", 0)
    /\ tx' = <<>>
    /\ UNCHANGED <<pc, comm, address, numdata, locals, now, rx, pending, scan>>

objectAngle(ob) ==
    /\ pc = "idle"
    /\ IF OutOfRange(ob, objectCountOf(buffer))
       THEN ret' = -1 /\ idx' = 0
       ELSE \E b \in Load(buffer, 1 + 4 * ob) :
               ret' = map(b, 0, 255, 0, 180) /\ idx' = 1 + 4 * ob
    /\ lastOp' = Op("objectAngle", ob)
    /\ tx' = <<>>
    /\ UNCHANGED <<pc, driver, locals, now, rx, pending, scan>>

objectVisibility(ob) ==
    /\ pc = "idle"
    /\ IF OutOfRange(ob, objectCountOf(buffer))
       THEN ret' = -1 /\ idx' = 0
       ELSE \E b \in Load(buffer, 2 + 4 * ob) :
               ret' = b /\ idx' = 2 + 4 * ob
    /\ lastOp' = Op("objectVisibility", ob)
    /\ tx' = <<>>
    /\ UNCHANGED <<pc, driver, locals, now, rx, pending, scan>>

pathAngle(pa) ==
    /\ pc = "idle"
    /\ buffer' = MaskHeader(buffer)
    /\ IF OutOfRange(pa, pathCountOf(buffer))
       THEN ret' = -1 /\ idx' = 0
       ELSE \E b \in Load(buffer', 3 + 4 * pa) :
               ret' = map(b, 0, 255, 0, 180) /\ idx' = 3 + 4 * pa
    /\ lastOp' = Op("pathAngle", pa)
    /\ tx' = <<>>
    /\ UNCHANGED <<pc, comm, address, numdata, locals, now, rx, pending, scan>>

pathVisibility(pa) ==
    /\ pc = "idle"
    /\ buffer' = MaskHeader(buffer)
    /\ IF OutOfRange(pa, pathCountOf(buffer))
       THEN ret' = -1 /\ idx' = 0
       ELSE \E b \in Load(buffer', 4 + 4 * pa) :
               ret' = b /\ idx' = 4 + 4 * pa
    /\ lastOp' = Op("pathVisibility", pa)
    /\ tx' = <<>>
    /\ UNCHANGED <<pc, comm, address, numdata, locals, now, rx, pending, scan>>

(***************************************************************************)
(* The configuration calls.  Each builds its frames (none or one) and      *)
(* hands them to _write().                                                 *)
(***************************************************************************)
\* scanTime() sending the high byte first
scanTimeFramesBigEndian(milliSeconds) ==
    IF milliSeconds >= 1 /\ milliSeconds <= MINDUR - 1
    THEN <<(<<"SCANTIME", MINDUR, NEWLINE>>)>>
    ELSE IF milliSeconds >= 0 /\ milliSeconds <= 32767
    THEN <<(<<"SCANTIME", Byte(ShiftRight(milliSeconds, 8)),
              Byte(milliSeconds % 256), NEWLINE>>)>>
    ELSE <<>>

scanTimeFrames(milliSeconds) ==
    IF milliSeconds >= 1 /\ milliSeconds <= MINDUR - 1
    THEN <<(<<"SCANTIME", MINDUR, NEWLINE>>)>>
    ELSE IF milliSeconds >= 0 /\ milliSeconds <= 32767
    THEN <<(<<"SCANTIME", Byte(milliSeconds % 256),
              Byte(ShiftRight(milliSeconds, 8)), NEWLINE>>)>>
    ELSE <<>>

\* setNewI2Caddress() accepting the reserved addresses 0 and 1
setNewI2CaddressFramesFromZero(newAddress) ==
    IF newAddress >= 0 /\ newAddress <= 127
    THEN <<(<<"I2CADDR", Byte(newAddress), NEWLINE>>)>>
    ELSE <<>>

setNewI2CaddressFrames(newAddress) ==
    IF newAddress >= 2 /\ newAddress <= 127
    THEN <<(<<"I2CADDR", Byte(newAddress), NEWLINE>>)>>
    ELSE <<>>

setNewSerialBaudRateFrames(newBaudRate) ==
    IF newBaudRate >= 1200 /\ newBaudRate <= 250000
    THEN <<(<<"BAUDRATE", Byte(newBaudRate % 256),
              Byte(ShiftRight(newBaudRate, 8)),
              Byte(ShiftRight(newBaudRate, 16)), NEWLINE>>)>>
    ELSE <<>>

LEDFrames(mode) == <<(<<"LEDUSAGE", mode, NEWLINE>>)>>

\* a configuration call: every frame goes through _write()
Configure(name, arg, frames) ==
    /\ pc = "idle"
    /\ tx' = IF frames = <<>> THEN <<>> ELSE write(frames[1])
    /\ lastOp' = Op(name, arg)
    /\ ret' = 0
    /\ UNCHANGED <<pc, driver, locals, now, rx, pending, idx, scan>>

scanTime(milliSeconds) ==
    Configure("scanTime", milliSeconds, scanTimeFrames(milliSeconds))

setNewI2Caddress(newAddress) ==
    Configure("setNewI2Caddress", newAddress, setNewI2CaddressFrames(newAddress))

setNewSerialBaudRate(newBaudRate) ==
    Configure("setNewSerialBaudRate", newBaudRate,
              setNewSerialBaudRateFrames(newBaudRate))

LEDshowObject == Configure("LEDshowObject", 0, LEDFrames("SHOWOBJ"))

LEDshowPath == Configure("LEDshowPath", 0, LEDFrames("SHOWPATH"))

LEDoff == Configure("LEDoff", 0, LEDFrames("LEDOFF"))

Begin == beginSerial \/ \E a \in Addresses : beginWire(a)

Read ==
    /\ pc = "idle"
    /\ \E obs \in ReadArgs, h \in RespHeaders, p \in RespFills,
          len \in WireLens \cup {0}, clock \in StartClocks :
           readCall(obs, h, p, len, clock)

Clock == \E d \in TickSteps : Tick(d)

Counts == objectCount \/ pathCount

Objects == \E ob \in IdxArgs : objectAngle(ob) \/ objectVisibility(ob)

Paths == \E pa \in IdxArgs : pathAngle(pa) \/ pathVisibility(pa)

LEDs == LEDshowObject \/ LEDshowPath \/ LEDoff

Settings ==
    \/ \E v \in ScanTimeArgs : scanTime(v)
    \/ \E a \in AddressArgs : setNewI2Caddress(a)
    \/ \E b \in BaudArgs : setNewSerialBaudRate(b)

Next ==
    \/ Begin \/ Read \/ readLoop \/ readReturn \/ Arrive \/ Clock
    \/ Counts \/ Objects \/ Paths \/ Settings \/ LEDs

Spec == Init /\ [][Next]_vars

(***************************************************************************)
(* The scan alone, with the scheduling read() relies on: the processor     *)
(* runs the loop, and micros() advances.                                   *)
(***************************************************************************)
ScanNext == Begin \/ Read \/ readLoop \/ readReturn \/ Arrive \/ Clock

FairSpec ==
    /\ Init
    /\ [][ScanNext]_vars
    /\ WF_vars(readLoop)
    /\ WF_vars(readReturn)
    /\ WF_vars(Clock)

(***************************************************************************)
(* The first configuration call of a driver, over the whole range of its   *)
(* argument.                                                               *)
(***************************************************************************)
FirstSettings ==
    /\ lastOp.name = "begin"
    /\ \/ \E v \in Int16 : scanTime(v)
       \/ \E a \in AddressRange : setNewI2Caddress(a)
       \/ \E b \in BaudRange : setNewSerialBaudRate(b)

FirstLEDs == lastOp.name = "begin" /\ LEDs

ConfigNext == Begin \/ FirstSettings \/ FirstLEDs

ConfigSpec == Init /\ [][ConfigNext]_vars

(***************************************************************************)
(* The angle accessors on a begun driver whose _buffer declares one object *)
(* and one path (header 0x11) and holds the raw byte r everywhere else.    *)
(***************************************************************************)
RawBuffer(r) == [k \in 0..(Capacity - 1) |-> IF k = 0 THEN 17 ELSE r]

DecodeInit ==
    /\ pc = "idle"
    /\ comm = "SERIAL"
    /\ address = 0
    /\ numdata = 0
    /\ buffer \in {RawBuffer(r) : r \in 0..255}
    /\ numBytes = 0 /\ i = 0
    /\ startTime = ULong(0) /\ duration = ULong(0) /\ now = ULong(0)
    /\ rx = <<>> /\ pending = <<>> /\ tx = <<>>
    /\ lastOp = Op("begin", 0)
    /\ ret = 0
    /\ idx = -1
    /\ stored = 0 /\ quiet = 0 /\ late = 0
    /\ before = buffer /\ scanned = buffer

DecodeNext == objectAngle(0) \/ pathAngle(0)

DecodeSpec == DecodeInit /\ [][DecodeNext]_vars

(***************************************************************************)
(* The properties.                                                         *)
(***************************************************************************)
AccessorNames ==
    {"objectCount", "pathCount", "objectAngle", "objectVisibility",
     "pathAngle", "pathVisibility"}

ConfigNames ==
    {"scanTime", "setNewI2Caddress", "setNewSerialBaudRate",
     "LEDshowObject", "LEDshowPath", "LEDoff"}

Returned(name) == pc = "idle" /\ lastOp.name = name

\* the frames a call wrote: the payloads of its write events
Frames(log) ==
    LET writes == SelectSeq(log, LAMBDA e : e.ev = "write")
    IN  [k \in 1..Len(writes) |-> writes[k].bytes]

\* 1 + 4 * min(N, MAXOBJECTS)
Budget(N) == 1 + 4 * (IF N < MAXOBJECTS THEN N ELSE MAXOBJECTS)

\* C1: when read(N) has returned, it returned true iff it stored at least
\* one byte in this call; it returned false only with no byte stored and
\* the deadline of 20000 microseconds expired, and then _buffer is as the
\* call found it.
C1_ReadResult ==
    Returned("read") =>
        /\ ret \in {0, 1}
        /\ ret = 1 <=> stored >= 1
        /\ ret = 0 => stored = 0 /\ quiet >= maxWait /\ buffer = before

C1_Witness ==
    /\ Returned("read")
    /\ ret = 0
    /\ stored = 0
    /\ quiet >= maxWait
    /\ rx = <<>>

\* C2 (as claimed): after a read() that stored a header byte h, and after
\* any accessor calls, _buffer is as read() left it, objectCount() is the
\* high nibble of h and pathCount() the low nibble of h.
C2_AccessorsOnlyRead ==
    (pc = "idle" /\ stored >= 1 /\ lastOp.name \in AccessorNames \cup {"read"}) =>
        /\ buffer = scanned
        /\ objectCountOf(buffer) = ShiftRight(scanned[0], 4)
        /\ pathCountOf(buffer) = scanned[0] % 16

\* C3 (as claimed): objectAngle(i) and objectVisibility(i) return -1 for
\* an index outside 0 .. objectCount()-1; inside, the angle is in 0..180
\* and the visibility is the byte of _buffer at offset 2+4i.  The same for
\* pathAngle(i) and pathVisibility(i) with pathCount() and the offsets
\* 3+4i and 4+4i.
C3_AccessorResults ==
    LET k == lastOp.arg
        inObjects == 0 <= k /\ k < ShiftRight(buffer[0], 4)
        inPaths == 0 <= k /\ k < buffer[0] % 16
    IN  /\ Returned("objectAngle") =>
              IF inObjects THEN ret \in 0..180 ELSE ret = -1
        /\ Returned("objectVisibility") =>
              IF inObjects
              THEN 2 + 4 * k \in DOMAIN buffer /\ ret = buffer[2 + 4 * k]
              ELSE ret = -1
        /\ Returned("pathAngle") =>
              IF inPaths THEN ret \in 0..180 ELSE ret = -1
        /\ Returned("pathVisibility") =>
              IF inPaths
              THEN 4 + 4 * k \in DOMAIN buffer /\ ret = buffer[4 + 4 * k]
              ELSE ret = -1

\* C4 (as claimed): for an index in range, objectAngle() and pathAngle()
\* return round(raw * 180 / 255) of the raw angle byte.
C4_DecodeRounds ==
    (pc = "idle" /\ lastOp.name \in {"objectAngle", "pathAngle"} /\ ret # -1) =>
        ret = (2 * 180 * before[1] + 255) \div (2 * 255)

\* C4 (amended): for an index in range, objectAngle() and pathAngle()
\* return raw * 180 / 255 rounded down, which is 0 for raw 0, 180 for raw
\* 255, never more than 180 and never less than for a smaller raw byte.
C4_DecodeTruncates ==
    (pc = "idle" /\ lastOp.name \in {"objectAngle", "pathAngle"} /\ ret # -1) =>
        LET raw == before[1]
        IN  /\ 255 * ret <= 180 * raw /\ 180 * raw < 255 * (ret + 1)
            /\ ret \in 0..180
            /\ raw = 0 => ret = 0
            /\ raw = 255 => ret = 180
            /\ \A r \in 0..raw : map(r, 0, 255, 0, 180) <= ret

C4_Witness ==
    /\ Returned("pathAngle")
    /\ before[1] = 1
    /\ ret = 0

\* C5: a configuration call writes a frame iff its argument is in range
\* (scanTime: 0..32767, setNewI2Caddress: 2..127, setNewSerialBaudRate:
\* 1200..250000, the LED calls always); out of range it writes nothing;
\* in range it writes exactly one frame, in one transmission on the
\* two-wire bus; every frame ends with 0x0A; and no call changes the
\* driver's state.
C5_ConfigFrames ==
    [][(lastOp'.name \in ConfigNames) =>
          LET arg == lastOp'.arg
              inRange ==
                  CASE lastOp'.name = "scanTime" -> arg \in 0..32767
                    [] lastOp'.name = "setNewI2Caddress" -> arg \in 2..127
                    [] lastOp'.name = "setNewSerialBaudRate" ->
                           arg >= 1200 /\ arg <= 250000
                    [] OTHER -> TRUE
              frames == Frames(tx')
          IN  /\ inRange <=> Len(frames) = 1
              /\ ~inRange => tx' = <<>>
              /\ inRange =>
                    /\ frames[1][Len(frames[1])] = 10
                    /\ IF comm = "I2C"
                       THEN /\ Len(tx') = 3
                            /\ tx'[1] = Event("beginTransmission", address, <<>>)
                            /\ tx'[2].ev = "write"
                            /\ tx'[3].ev = "endTransmission"
                       ELSE Len(tx') = 1
              /\ UNCHANGED <<comm, address, numdata, buffer>>]_vars

C5_Witness ==
    /\ Returned("setNewI2Caddress")
    /\ lastOp.arg = 200
    /\ comm = "I2C"
    /\ tx = <<>>

\* C6 (as claimed): for v in 0..32767, scanTime(v) writes one frame
\* {tag, lo, hi, 0x0A} with lo + 256*hi = v when v = 0 or v >= MINDUR, and
\* = MINDUR when 1 <= v <= MINDUR-1.
C6_ScanTimeFourBytes ==
    (Returned("scanTime") /\ lastOp.arg \in 0..32767) =>
        LET frames == Frames(tx)
            v == lastOp.arg
        IN  /\ Len(frames) = 1
            /\ Len(frames[1]) = 4
            /\ frames[1][1] = "SCANTIME"
            /\ frames[1][4] = 10
            /\ frames[1][2] + 256 * frames[1][3] =
                   IF v = 0 \/ v >= MINDUR THEN v ELSE MINDUR

\* C6 (amended): for v in 0..32767, scanTime(v) writes one frame: for
\* v = 0 or v >= MINDUR the frame {tag, lo, hi, 0x0A} with lo and hi bytes
\* and lo + 256*hi = v; for 1 <= v <= MINDUR-1 the three-byte frame
\* {tag, MINDUR, 0x0A}.
C6_ScanTimeFrame ==
    (Returned("scanTime") /\ lastOp.arg \in 0..32767) =>
        LET frames == Frames(tx)
            v == lastOp.arg
        IN  /\ Len(frames) = 1
            /\ IF v = 0 \/ v >= MINDUR
               THEN /\ Len(frames[1]) = 4
                    /\ frames[1][1] = "SCANTIME"
                    /\ frames[1][2] \in 0..255 /\ frames[1][3] \in 0..255
                    /\ frames[1][2] + 256 * frames[1][3] = v
                    /\ frames[1][4] = 10
               ELSE frames[1] = <<"SCANTIME", 15, 10>>

C6_Witness ==
    /\ Returned("scanTime")
    /\ lastOp.arg = 5
    /\ comm = "I2C"
    /\ Frames(tx) = <<(<<"SCANTIME", 15, 10>>)>>

\* the state in which read(8) has stored the header byte 0x10 and nothing
\* else, and the header is as stored
OnlyHeaderArrived ==
    /\ pc = "idle"
    /\ numdata = 8
    /\ stored = 1
    /\ buffer[0] = 16

\* C7 (as claimed): when read(8) received only the header byte 0x10,
\* read() returns true, objectCount() returns 1 and objectAngle(0)
\* returns -1.
C7_PartialHidesObject ==
    /\ (OnlyHeaderArrived /\ lastOp.name = "read") => ret = 1
    /\ (OnlyHeaderArrived /\ lastOp.name = "objectCount") => ret = 1
    /\ (OnlyHeaderArrived /\ lastOp.name = "objectAngle" /\ lastOp.arg = 0) =>
           ret = -1

\* C7 (amended): when read(8) received only the header byte 0x10, read()
\* returns true, the bytes of _buffer behind the header are those from
\* before the call, objectCount() returns 1 and objectAngle(0) returns the
\* angle decoded from the byte that was at offset 1 before the call, a
\* value in 0..180 and not -1.
C7_PartialShowsStale ==
    /\ (OnlyHeaderArrived /\ lastOp.name = "read") =>
           /\ ret = 1
           /\ \A k \in 1..(Capacity - 1) : buffer[k] = before[k]
    /\ (OnlyHeaderArrived /\ lastOp.name = "objectCount") => ret = 1
    /\ (OnlyHeaderArrived /\ lastOp.name = "objectAngle" /\ lastOp.arg = 0) =>
           /\ ret = (180 * before[1]) \div 255
           /\ ret \in 0..180

C7_Witness ==
    /\ OnlyHeaderArrived
    /\ lastOp = Op("objectAngle", 0)
    /\ comm = "SERIAL"
    /\ before[1] = 84
    /\ ret = 59

C9_IndicesInCapacity == idx < 1 + 4 * MAXOBJECTS

\* C10: for N >= 0, read(N) makes exactly one request, for
\* n = 1 + 4*min(N, MAXOBJECTS) bytes, before it stores any byte: on the
\* serial stream it writes the frame {REQUESTDATA, n, 0x0A} and nothing
\* else; on the two-wire bus it calls requestFrom(address, n) with the
\* address given to begin() and writes no frame.
C10_OneRequest ==
    /\ (lastOp.name = "begin" /\ comm = "I2C") => address = lastOp.arg
    /\ (lastOp.name = "read" /\ lastOp.arg >= 0) =>
           LET n == Budget(lastOp.arg)
           IN  IF comm = "SERIAL"
               THEN tx = <<Event("write", 0, <<"REQUESTDATA", n, 10>>)>>
               ELSE /\ tx = <<Event("requestFrom", address, <<n>>)>>
                    /\ address \in Addresses

C10_Witness ==
    /\ pc = "loop"
    /\ lastOp = Op("read", 9)
    /\ comm = "I2C"
    /\ stored = 0
    /\ tx = <<Event("requestFrom", 69, <<33>>)>>
=============================================================================
